---------------------------- MODULE Spec2Model ----------------------------
(***************************************************************************)
(* A model of update_python_switchers.py: the scan for python binaries,    *)
(* the classification of a version string into display names and a shell   *)
(* identifier, and the run that prints a dry-run table or writes the two    *)
(* selector files.                                                          *)
(*                                                                         *)
(* Strings are TLA+ strings; TLC evaluates Len, \o, SubSeq, Head and Tail   *)
(* on them, so the Python string methods are modelled character by         *)
(* character.  Positions are 1-based; find returns 0 where Python's        *)
(* str.find returns -1.                                                     *)
(***************************************************************************)
EXTENDS Integers, Sequences, FiniteSets, TLC

VARIABLES
    pc,                 \* position of the control flow
    arg,                \* argument of the function under call (function harnesses)
    ret,                \* what the call returned, or that it raised
    dry_run,            \* args.dry_run
    excluded_patterns,  \* args.excluded_patterns
    existing,           \* the paths for which os.path.exists is true
    results,            \* the lines of locate's output
    binaries,           \* what each binary writes to stderr under -V
    installed_pythons,  \* module-level list of the detected installations
    idx,                \* position of the for loop in installed_pythons
    p,                  \* module-level loop variable p
    full_version,       \* module-level full_version
    prompt,             \* module-level prompt
    bash_func_name,     \* module-level bash_func_name
    fs                  \* the two output files

vars == <<pc, arg, ret, dry_run, excluded_patterns, existing, results, binaries,
          installed_pythons, idx, p, full_version, prompt, bash_func_name, fs>>

-----------------------------------------------------------------------------
(* Bounds of the model.                                                      *)

MaxExtra == 2        \* characters appended to a path stem
MaxTokenLen == 3     \* length of the strings fed to the token derivation
MaxPieces == 3       \* pieces concatenated into a version string
MaxLines == 2        \* lines of locate output given to the scan alone
MaxPatterns == 2     \* exclusion patterns given to the scan alone
MaxInstalls == 3     \* lines of locate output in a run
MaxUserPatterns == 1 \* -e options on the command line of a run

-----------------------------------------------------------------------------
(* Python's str methods.                                                     *)

Char(s, i) == SubSeq(s, i, i)

\* s.startswith(prefix)
startswith(s, prefix) ==
    /\ Len(prefix) <= Len(s)
    /\ SubSeq(s, 1, Len(prefix)) = prefix

\* s.endswith(suffix)
endswith(s, suffix) ==
    /\ Len(suffix) <= Len(s)
    /\ SubSeq(s, Len(s) - Len(suffix) + 1, Len(s)) = suffix

\* sub in s
contains(s, sub) ==
    \E i \in 1..(Len(s) - Len(sub) + 1) : SubSeq(s, i, i + Len(sub) - 1) = sub

\* s.find(sub), 1-based, 0 when sub does not occur
find(s, sub) ==
    IF ~contains(s, sub) THEN 0
    ELSE CHOOSE i \in 1..(Len(s) - Len(sub) + 1) :
             /\ SubSeq(s, i, i + Len(sub) - 1) = sub
             /\ \A j \in 1..(i - 1) : SubSeq(s, j, j + Len(sub) - 1) # sub

\* s.split(sep): the pieces between the non-overlapping occurrences of sep,
\* found left to right
RECURSIVE split(_, _)
split(s, sep) ==
    LET i == find(s, sep)
    IN  IF i = 0
        THEN <<s>>
        ELSE <<SubSeq(s, 1, i - 1)>> \o split(SubSeq(s, i + Len(sep), Len(s)), sep)

Whitespace == {" ", "\t", "\n", "\r"}

RECURSIVE lstrip(_)
lstrip(s) ==
    IF s # "" /\ Head(s) \in Whitespace THEN lstrip(Tail(s)) ELSE s

RECURSIVE rstrip(_)
rstrip(s) ==
    IF s # "" /\ Char(s, Len(s)) \in Whitespace
    THEN rstrip(SubSeq(s, 1, Len(s) - 1))
    ELSE s

\* s.strip()
strip(s) == rstrip(lstrip(s))

UpperCase == "ABCDEFGHIJKLMNOPQRSTUVWXYZ"
LowerCase == "abcdefghijklmnopqrstuvwxyz"

UpperLetters == {Char(UpperCase, i) : i \in 1..Len(UpperCase)}

lower_char(c) ==
    IF c \in UpperLetters THEN Char(LowerCase, find(UpperCase, c)) ELSE c

\* The two halves of a string of two characters or more.
LeftHalf(s) == SubSeq(s, 1, Len(s) \div 2)
RightHalf(s) == SubSeq(s, Len(s) \div 2 + 1, Len(s))

\* s.lower(), character by character
RECURSIVE lower(_)
lower(s) ==
    IF s = "" THEN ""
    ELSE IF Len(s) = 1 THEN lower_char(s)
    ELSE lower(LeftHalf(s)) \o lower(RightHalf(s))

\* string.translate(s, None, deletions): s without the characters of deletions
RECURSIVE translate_delete(_, _)
translate_delete(s, deletions) ==
    IF s = "" THEN ""
    ELSE IF Len(s) = 1 THEN (IF contains(deletions, s) THEN "" ELSE s)
    ELSE translate_delete(LeftHalf(s), deletions)
             \o translate_delete(RightHalf(s), deletions)

\* s.replace(old, new) for a one-character old
RECURSIVE replace(_, _, _)
replace(s, old, new) ==
    IF s = "" THEN ""
    ELSE IF Len(s) = 1 THEN (IF s = old THEN new ELSE s)
    ELSE replace(LeftHalf(s), old, new) \o replace(RightHalf(s), old, new)

\* s.rfind("/"), 1-based, 0 when there is no slash
rfind_slash(s) ==
    LET I == {i \in 1..Len(s) : Char(s, i) = "/"}
    IN  IF I = {} THEN 0 ELSE CHOOSE i \in I : \A j \in I : j <= i

RECURSIVE rstrip_slash(_)
rstrip_slash(s) ==
    IF s # "" /\ Char(s, Len(s)) = "/"
    THEN rstrip_slash(SubSeq(s, 1, Len(s) - 1))
    ELSE s

\* os.path.dirname (posixpath): everything up to the last slash, without
\* trailing slashes unless it is made of slashes only
dirname(path) ==
    LET head == SubSeq(path, 1, rfind_slash(path))
    IN  IF rstrip_slash(head) = "" THEN head ELSE rstrip_slash(head)

-----------------------------------------------------------------------------
(* The module-level constants.                                               *)

SYSTEM_ROOT == "/System/Library/Frameworks/Python.framework"
MACPYTHON_ROOT == "/Library/Frameworks/Python.framework"
EXCLUDED_PATTERNS == <<".*virtualenv.*", ".*pkgs.*", ".*anaconda/envs.*">>

Unbound == "<unbound>"      \* a module-level name not assigned yet
NoError == "none"
NoReturn == [exc |-> NoError, kind |-> "nothing"]

-----------------------------------------------------------------------------
(* The scan.                                                                 *)

\* A variant that forgets the python3 ending.
is_python_filepath_python_only(filepath) == endswith(filepath, "bin/python")

\* return filepath.endswith("bin/python") or filepath.endswith("bin/python3")
is_python_filepath(filepath) ==
    endswith(filepath, "bin/python") \/ endswith(filepath, "bin/python3")

\* re.match(pattern, string) is not None, for patterns made of literal
\* characters, "." and a "*" after either: the pattern must match starting at
\* the first character of the string, and need not reach its end.
RECURSIVE re_match(_, _)
re_match(pattern, string) ==
    IF pattern = "" THEN TRUE
    ELSE LET c == Head(pattern)
         IN  IF Len(pattern) >= 2 /\ Char(pattern, 2) = "*"
             THEN \E k \in 0..Len(string) :
                      /\ (c = "." \/ \A j \in 1..k : Char(string, j) = c)
                      /\ re_match(SubSeq(pattern, 3, Len(pattern)),
                                  SubSeq(string, k + 1, Len(string)))
             ELSE /\ string # ""
                  /\ (c = "." \/ c = Head(string))
                  /\ re_match(Tail(pattern), Tail(string))

\* file_exists=os.path.exists
file_exists(filepath) == filepath \in existing

\* A variant whose loop returns after the first pattern.
is_python_executable_first_pattern(filepath, patterns) ==
    IF ~is_python_filepath(filepath) \/ ~file_exists(filepath)
    THEN FALSE
    ELSE patterns = <<>> \/ ~re_match(patterns[1], filepath)

is_python_executable(filepath, patterns) ==
    IF ~is_python_filepath(filepath) \/ ~file_exists(filepath)
    THEN FALSE
    ELSE ~\E i \in 1..Len(patterns) : re_match(patterns[i], filepath)

\* [each for each in results if is_python_executable(each, excluded_patterns)]
detect_all_python_installs(patterns) ==
    SelectSeq(results, LAMBDA each : is_python_executable(each, patterns))

-----------------------------------------------------------------------------
(* The classification.  A call returns a record; exc names the exception it  *)
(* raised, NoError when it returned.                                         *)

\* stderr.strip() of the binary run with -V
get_python_version(python_filepath) == strip(binaries[python_filepath])

\* A variant that puts a hyphen for a space, after the hyphens were replaced.
make_bash_func_string_hyphen(s) ==
    LET deleted == lower(translate_delete(s, ":.()[]{}"))
    IN  replace(replace(deleted, "-", "_"), " ", "-")

make_bash_func_string(s) ==
    LET deleted == lower(translate_delete(s, ":.()[]{}"))
    IN  replace(replace(deleted, " ", "_"), "-", "_")

ShortStrings(short) ==
    [exc |-> NoError, short |-> short, token |-> make_bash_func_string(short)]

IndexError == [exc |-> "IndexError", short |-> "", token |-> ""]

\* A variant that tests for "Anaconda" before "-- EPD".
make_short_strings_anaconda_first(version_string) ==
    IF contains(version_string, "Anaconda")
    THEN LET parts == split(version_string, "::")
         IN  IF Len(parts) < 2
             THEN [exc |-> "IndexError", short |-> "", token |-> ""]
             ELSE [exc |-> NoError, short |-> strip(parts[2]),
                   token |-> make_bash_func_string(strip(parts[2]))]
    ELSE IF contains(version_string, "-- EPD")
    THEN [exc |-> NoError, short |-> strip(split(version_string, "--")[2]),
          token |-> make_bash_func_string(strip(split(version_string, "--")[2]))]
    ELSE IF contains(version_string, "MacPython")
    THEN LET parts == split(split(version_string, "--")[1], "Python")
         IN  IF Len(parts) < 2
             THEN [exc |-> "IndexError", short |-> "", token |-> ""]
             ELSE [exc |-> NoError, short |-> "MacPython " \o strip(parts[2]),
                   token |-> make_bash_func_string("MacPython " \o strip(parts[2]))]
    ELSE [exc |-> NoError, short |-> version_string,
          token |-> make_bash_func_string(version_string)]

make_short_strings(version_string) ==
    IF contains(version_string, "-- EPD")
    THEN ShortStrings(strip(split(version_string, "--")[2]))
    ELSE IF contains(version_string, "Anaconda")
    THEN LET parts == split(version_string, "::")
         IN  IF Len(parts) < 2 THEN IndexError ELSE ShortStrings(strip(parts[2]))
    ELSE IF contains(version_string, "MacPython")
    THEN LET parts == split(split(version_string, "--")[1], "Python")
         IN  IF Len(parts) < 2 THEN IndexError
             ELSE ShortStrings("MacPython " \o strip(parts[2]))
    ELSE IF contains(version_string, "System")
    THEN ShortStrings(version_string)
    ELSE ShortStrings(version_string)

VersionStrings(version_string) ==
    LET r == make_short_strings(version_string)
    IN  [exc |-> r.exc, version_string |-> version_string,
         short |-> r.short, token |-> r.token]

\* A variant without the test for /usr.
make_version_strings_no_usr(python_filepath) ==
    LET version_string == get_python_version(p)
    IN  IF startswith(python_filepath, MACPYTHON_ROOT)
        THEN VersionStrings(version_string \o " -- MacPython")
        ELSE IF startswith(python_filepath, SYSTEM_ROOT)
        THEN VersionStrings("System " \o version_string)
        ELSE VersionStrings(version_string)

\* The version is probed at the module-level p, not at the parameter.
make_version_strings(python_filepath) ==
    IF p = Unbound
    THEN [exc |-> "NameError", version_string |-> "", short |-> "", token |-> ""]
    ELSE LET version_string == get_python_version(p)
         IN  IF startswith(python_filepath, MACPYTHON_ROOT)
             THEN VersionStrings(version_string \o " -- MacPython")
             ELSE IF \/ startswith(python_filepath, SYSTEM_ROOT)
                     \/ startswith(python_filepath, "/usr")
             THEN VersionStrings("System " \o version_string)
             ELSE VersionStrings(version_string)

-----------------------------------------------------------------------------
(* Inputs.                                                                   *)

RECURSIVE StringsOfLen(_, _)
StringsOfLen(alphabet, n) ==
    IF n = 0 THEN {""}
    ELSE {s \o c : s \in StringsOfLen(alphabet, n - 1), c \in alphabet}

StringsUpTo(alphabet, n) == UNION {StringsOfLen(alphabet, k) : k \in 0..n}

RECURSIVE SeqsOfLen(_, _)
SeqsOfLen(S, n) ==
    IF n = 0 THEN {<<>>}
    ELSE {Append(q, x) : q \in SeqsOfLen(S, n - 1), x \in S}

SeqsUpTo(S, n) == UNION {SeqsOfLen(S, k) : k \in 0..n}

\* Paths around the two accepted endings: a directory, a stem and up to
\* MaxExtra more characters.
FilepathDirs == {"", "/usr/", "/usr/s", "/home/aneiko/python_projects/macx"}
FilepathStems == {"", "python", "bin/pytho", "bin/python", "in/python",
                  "Bin/python", "bin/Python"}
FilepathInputs ==
    {d \o t \o e : d \in FilepathDirs, t \in FilepathStems,
                   e \in StringsUpTo({"n", "3", "2", "/"}, MaxExtra)}

TokenInputs ==
    StringsUpTo({"a", "B", "7", "_", " ", "-", ":", ".", "(", "}"}, MaxTokenLen)

\* The three rows of make_short_strings' doctest.
DocRows == {"Python 2.7.2 -- EPD 7.2-2 (64-bit)",
            "Python 2.7.1 -- MacPython",
            "Python 2.7.5 :: Anaconda 1.6.1 (x86_64)"}

\* What make_version_strings hands over for an EPD installed under the
\* MacPython root.
QualifiedRows == {"Python 2.7.2 -- EPD 7.2-2 (32-bit) -- MacPython"}

VersionPieces == {"Python 2.7", " -- ", " :: ", "EPD 7.2", "Anaconda 1.6",
                  "MacPython", "System "}

RECURSIVE Concat(_)
Concat(q) == IF q = <<>> THEN "" ELSE Head(q) \o Concat(Tail(q))

\* The version strings: the empty one, the rows above, and up to MaxPieces
\* pieces in any order.
VersionInputs ==
    DocRows \cup QualifiedRows \cup {Concat(q) : q \in SeqsUpTo(VersionPieces, MaxPieces)}

NamingPaths == {"/Library/Frameworks/Python.framework/Versions/2.7/bin/python",
                "/Library/Frameworks/Python.framework/Versions/3.6/bin/python3",
                "/System/Library/Frameworks/Python.framework/Versions/2.7/bin/python",
                "/usr/bin/python",
                "/usr/local/bin/python3",
                "/opt/anaconda/bin/python",
                "/Library/Frameworks/EPD64.framework/Versions/7.2/bin/python"}

-----------------------------------------------------------------------------
(* The functions called on their own.                                        *)

NoFile == [present |-> FALSE, content |-> <<>>]
NoFiles == [sh |-> NoFile, fish |-> NoFile]

runVars == <<dry_run, excluded_patterns, existing, results, binaries,
             installed_pythons, idx, p, full_version, prompt, bash_func_name, fs>>

NoGlobals ==
    /\ installed_pythons = <<>>
    /\ idx = 0
    /\ full_version = Unbound
    /\ prompt = Unbound
    /\ bash_func_name = Unbound

NoRun ==
    /\ dry_run = FALSE
    /\ excluded_patterns = <<>>
    /\ existing = {}
    /\ results = <<>>
    /\ fs = NoFiles
    /\ NoGlobals

InitFilepath ==
    /\ pc = "call"
    /\ arg \in FilepathInputs
    /\ ret = NoReturn
    /\ binaries = <<>>
    /\ p = Unbound
    /\ NoRun

Call_is_python_filepath ==
    /\ pc = "call"
    /\ ret' = [exc |-> NoError, kind |-> "bool", value |-> is_python_filepath(arg)]
    /\ pc' = "returned"
    /\ UNCHANGED <<arg, runVars>>

SpecFilepath == InitFilepath /\ [][Call_is_python_filepath]_vars

InitToken ==
    /\ pc = "call"
    /\ arg \in TokenInputs
    /\ ret = NoReturn
    /\ binaries = <<>>
    /\ p = Unbound
    /\ NoRun

\* token = make_bash_func_string(s)
Derive ==
    /\ pc = "call"
    /\ ret' = [exc |-> NoError, kind |-> "tokens",
               value |-> <<make_bash_func_string(arg)>>]
    /\ pc' = "derived"
    /\ UNCHANGED <<arg, runVars>>

\* make_bash_func_string(token)
Rederive ==
    /\ pc = "derived"
    /\ ret' = [ret EXCEPT !.value = Append(@, make_bash_func_string(@[1]))]
    /\ pc' = "rederived"
    /\ UNCHANGED <<arg, runVars>>

NextToken == Derive \/ Rederive

SpecToken == InitToken /\ [][NextToken]_vars

InitShort ==
    /\ pc = "call"
    /\ arg \in VersionInputs
    /\ ret = NoReturn
    /\ binaries = <<>>
    /\ p = Unbound
    /\ NoRun

Call_make_short_strings ==
    /\ pc = "call"
    /\ ret' = make_short_strings(arg)
    /\ pc' = "returned"
    /\ UNCHANGED <<arg, runVars>>

SpecShort == InitShort /\ [][Call_make_short_strings]_vars

\* The for loop has bound p to the path, whose binary writes arg.stderr.
InitNaming ==
    /\ pc = "call"
    /\ arg \in [path : NamingPaths, stderr : VersionInputs]
    /\ ret = NoReturn
    /\ binaries = [q \in {arg.path} |-> arg.stderr]
    /\ p = arg.path
    /\ NoRun

Call_make_version_strings ==
    /\ pc = "call"
    /\ ret' = make_version_strings(arg.path)
    /\ pc' = "returned"
    /\ UNCHANGED <<arg, runVars>>

SpecNaming == InitNaming /\ [][Call_make_version_strings]_vars

-----------------------------------------------------------------------------
(* The scan called on its own.                                               *)

ScanCandidates == {"/usr/bin/python",
                   "/usr/bin/python2.7",
                   "/opt/anaconda/bin/python3",
                   "/home/u/.virtualenvs/x/bin/python"}

ScanPatterns == {".*virtualenv.*", "/usr/.*", "usr/", "bin/python", ".*python3", ""}

\* stdout.split("\n"): the lines locate printed, and the empty string after
\* the last newline
SplitLines(lines) == lines \o <<"">>

InitScan ==
    /\ pc = "call"
    /\ arg = "locate"
    /\ ret = NoReturn
    /\ dry_run = FALSE
    /\ excluded_patterns \in SeqsUpTo(ScanPatterns, MaxPatterns)
    /\ existing \in {ScanCandidates, ScanCandidates \ {"/opt/anaconda/bin/python3"}}
    /\ results \in {SplitLines(q) : q \in SeqsUpTo(ScanCandidates, MaxLines)}
    /\ binaries = <<>>
    /\ p = Unbound
    /\ fs = NoFiles
    /\ NoGlobals

Call_detect_all_python_installs ==
    /\ pc = "call"
    /\ installed_pythons' = detect_all_python_installs(excluded_patterns)
    /\ pc' = "returned"
    /\ UNCHANGED <<arg, ret, dry_run, excluded_patterns, existing, results, binaries,
                   idx, p, full_version, prompt, bash_func_name, fs>>

SpecScan == InitScan /\ [][Call_detect_all_python_installs]_vars

-----------------------------------------------------------------------------
(* The script emitters.  A rendered function is the record of the values     *)
(* its template is filled with.                                              *)

\* The function name is read from the module-level bash_func_name; the
\* parameter, spelled bash_function_name, is not used.
generate_bash_select_func(python_filepath, version_string, prompt_string, bash_function_name) ==
    [kind |-> "function", dialect |-> "sh",
     path |-> dirname(python_filepath),
     version_string |-> version_string,
     prompt_string |-> prompt_string,
     func_name |-> "select_" \o bash_func_name]

generate_fish_select_function(python_filepath, version_string, prompt_string, bash_function_name) ==
    [kind |-> "function", dialect |-> "fish",
     path |-> dirname(python_filepath),
     version_string |-> version_string,
     prompt_string |-> prompt_string,
     func_name |-> "select_" \o bash_func_name]

Line(text) == [kind |-> "line", text |-> text]

shell_init_line == Line("export PRISTINE_INIT_PATH=$PATH\n")
fish_init_line == Line("set -gx PRISTINE_INIT_PATH $PATH\n")

\* open(name, 'w'): the file exists and is empty
open_w(file) == [present |-> TRUE, content |-> <<>>]

\* file.write(data)
write(file, data) == [file EXCEPT !.content = Append(@, data)]

-----------------------------------------------------------------------------
(* The run of the program.                                                   *)

RunCandidates == {"/usr/bin/python",
                  "/Library/Frameworks/Python.framework/Versions/2.7/bin/python",
                  "/Library/Frameworks/Python.framework/Versions/3.6/bin/python3",
                  "/opt/anaconda/bin/python",
                  "/home/u/.virtualenvs/x/bin/python"}

\* What each binary writes to stderr under -V.  Python 3.4 and later write
\* the version to stdout, and nothing to stderr.
RunBinaries ==
    [q \in RunCandidates |->
        CASE q = "/usr/bin/python" -> "Python 2.7.10\n"
          [] q = "/Library/Frameworks/Python.framework/Versions/2.7/bin/python"
                 -> "Python 2.7.1\n"
          [] q = "/Library/Frameworks/Python.framework/Versions/3.6/bin/python3"
                 -> ""
          [] q = "/opt/anaconda/bin/python"
                 -> "Python 2.7.5 :: Anaconda 1.6.1 (x86_64)\n"
          [] OTHER -> "Python 2.7.9\n"]

UserPatterns == {"/usr/.*"}

\* Before the run: the .sh file of an earlier run exists, the .fish file does not.
OldFile == [present |-> TRUE, content |-> <<Line("# selectors of an earlier run\n")>>]
OldFiles == [sh |-> OldFile, fish |-> NoFile]

\* parse_args: -e appends to the default list
Init ==
    /\ pc = "start"
    /\ arg = "main"
    /\ ret = NoReturn
    /\ dry_run \in BOOLEAN
    /\ excluded_patterns \in
           {EXCLUDED_PATTERNS \o q : q \in SeqsUpTo(UserPatterns, MaxUserPatterns)}
    /\ existing = RunCandidates
    /\ results \in {SplitLines(q) : q \in SeqsUpTo(RunCandidates, MaxInstalls)}
    /\ binaries = RunBinaries
    /\ p = Unbound
    /\ fs = OldFiles
    /\ NoGlobals

Raised(exc) == [exc |-> exc, kind |-> "raised"]

\* A variant that takes the write branch whatever args.dry_run is.
Detect_ignores_dry_run ==
    /\ pc = "start"
    /\ installed_pythons' = detect_all_python_installs(excluded_patterns)
    /\ pc' = "open"
    /\ UNCHANGED <<arg, ret, dry_run, excluded_patterns, existing, results, binaries,
                   idx, p, full_version, prompt, bash_func_name, fs>>

\* lines 267-278: the scan, and the choice of the branch
Detect ==
    /\ pc = "start"
    /\ installed_pythons' = detect_all_python_installs(excluded_patterns)
    /\ pc' = IF dry_run THEN "dry_loop" ELSE "open"
    /\ UNCHANGED <<arg, ret, dry_run, excluded_patterns, existing, results, binaries,
                   idx, p, full_version, prompt, bash_func_name, fs>>

\* line 275: for p in installed_pythons
DryNext ==
    /\ pc = "dry_loop"
    /\ idx < Len(installed_pythons)
    /\ idx' = idx + 1
    /\ p' = installed_pythons[idx + 1]
    /\ pc' = "dry_classify"
    /\ UNCHANGED <<arg, ret, dry_run, excluded_patterns, existing, results, binaries,
                   installed_pythons, full_version, prompt, bash_func_name, fs>>

\* line 275, the list exhausted
DryEnd ==
    /\ pc = "dry_loop"
    /\ idx = Len(installed_pythons)
    /\ pc' = "done"
    /\ UNCHANGED <<arg, ret, runVars>>

\* line 276: full_version, prompt, _ = make_version_strings(p)
DryClassify ==
    /\ pc = "dry_classify"
    /\ LET r == make_version_strings(p)
       IN  IF r.exc # NoError
           THEN /\ pc' = "aborted"
                /\ ret' = Raised(r.exc)
                /\ UNCHANGED <<full_version, prompt>>
           ELSE /\ pc' = "dry_print"
                /\ full_version' = r.version_string
                /\ prompt' = r.short
                /\ UNCHANGED ret
    /\ UNCHANGED <<arg, dry_run, excluded_patterns, existing, results, binaries,
                   installed_pythons, idx, p, bash_func_name, fs>>

\* line 277: the format string mixes {:<50} and {0}, and str.format raises
\* ValueError
DryPrint ==
    /\ pc = "dry_print"
    /\ pc' = "aborted"
    /\ ret' = Raised("ValueError")
    /\ UNCHANGED <<arg, runVars>>

\* lines 279-283: both files are opened for writing
OpenFiles ==
    /\ pc = "open"
    /\ fs' = [sh |-> open_w(fs.sh), fish |-> open_w(fs.fish)]
    /\ pc' = "init_lines"
    /\ UNCHANGED <<arg, ret, dry_run, excluded_patterns, existing, results, binaries,
                   installed_pythons, idx, p, full_version, prompt, bash_func_name>>

\* A variant that writes the initializer to the .sh file alone.
WriteInitializers_shell_only ==
    /\ pc = "init_lines"
    /\ fs' = [fs EXCEPT !.sh = write(@, shell_init_line)]
    /\ pc' = "loop"
    /\ UNCHANGED <<arg, ret, dry_run, excluded_patterns, existing, results, binaries,
                   installed_pythons, idx, p, full_version, prompt, bash_func_name>>

\* lines 285-286
WriteInitializers ==
    /\ pc = "init_lines"
    /\ fs' = [sh |-> write(fs.sh, shell_init_line),
              fish |-> write(fs.fish, fish_init_line)]
    /\ pc' = "loop"
    /\ UNCHANGED <<arg, ret, dry_run, excluded_patterns, existing, results, binaries,
                   installed_pythons, idx, p, full_version, prompt, bash_func_name>>

\* line 288: for p in installed_pythons
LoopNext ==
    /\ pc = "loop"
    /\ idx < Len(installed_pythons)
    /\ idx' = idx + 1
    /\ p' = installed_pythons[idx + 1]
    /\ pc' = "classify"
    /\ UNCHANGED <<arg, ret, dry_run, excluded_patterns, existing, results, binaries,
                   installed_pythons, full_version, prompt, bash_func_name, fs>>

\* line 288, the list exhausted: the with block closes the files; line 298
LoopEnd ==
    /\ pc = "loop"
    /\ idx = Len(installed_pythons)
    /\ pc' = "done"
    /\ UNCHANGED <<arg, ret, runVars>>

\* A variant that binds the token to another name after the first
\* installation, so that the module-level bash_func_name goes stale.
Classify_stale_name ==
    /\ pc = "classify"
    /\ LET r == make_version_strings(p)
       IN  IF r.exc # NoError
           THEN /\ pc' = "aborted"
                /\ ret' = Raised(r.exc)
                /\ UNCHANGED <<full_version, prompt, bash_func_name>>
           ELSE /\ pc' = "write_bash"
                /\ full_version' = r.version_string
                /\ prompt' = r.short
                /\ bash_func_name' =
                       IF bash_func_name = Unbound THEN r.token ELSE bash_func_name
                /\ UNCHANGED ret
    /\ UNCHANGED <<arg, dry_run, excluded_patterns, existing, results, binaries,
                   installed_pythons, idx, p, fs>>

\* line 289: full_version, prompt, bash_func_name = make_version_strings(p).
\* An exception leaves the with block, which closes the files as they are.
Classify ==
    /\ pc = "classify"
    /\ LET r == make_version_strings(p)
       IN  IF r.exc # NoError
           THEN /\ pc' = "aborted"
                /\ ret' = Raised(r.exc)
                /\ UNCHANGED <<full_version, prompt, bash_func_name>>
           ELSE /\ pc' = "write_bash"
                /\ full_version' = r.version_string
                /\ prompt' = r.short
                /\ bash_func_name' = r.token
                /\ UNCHANGED ret
    /\ UNCHANGED <<arg, dry_run, excluded_patterns, existing, results, binaries,
                   installed_pythons, idx, p, fs>>

\* lines 290-292
WriteBash ==
    /\ pc = "write_bash"
    /\ LET bash_func == generate_bash_select_func(p, full_version, prompt, bash_func_name)
       IN  fs' = [fs EXCEPT !.sh = write(@, bash_func)]
    /\ pc' = "write_fish"
    /\ UNCHANGED <<arg, ret, dry_run, excluded_patterns, existing, results, binaries,
                   installed_pythons, idx, p, full_version, prompt, bash_func_name>>

\* lines 294-295
WriteFish ==
    /\ pc = "write_fish"
    /\ LET fish_func == generate_fish_select_function(p, full_version, prompt, bash_func_name)
       IN  fs' = [fs EXCEPT !.fish = write(@, fish_func)]
    /\ pc' = "loop"
    /\ UNCHANGED <<arg, ret, dry_run, excluded_patterns, existing, results, binaries,
                   installed_pythons, idx, p, full_version, prompt, bash_func_name>>

Next ==
    \/ Detect
    \/ DryNext \/ DryEnd \/ DryClassify \/ DryPrint
    \/ OpenFiles \/ WriteInitializers
    \/ LoopNext \/ LoopEnd \/ Classify \/ WriteBash \/ WriteFish

Spec == Init /\ [][Next]_vars

-----------------------------------------------------------------------------
(* What the claims speak of, stated without the operators above.             *)

\* s ends with suffix: some prefix of s followed by suffix is s
EndsWith(s, suffix) == \E k \in 0..Len(s) : SubSeq(s, 1, k) \o suffix = s

\* s begins with prefix
BeginsWith(s, prefix) == \E k \in 0..Len(s) : SubSeq(s, 1, k) = prefix

IsPythonBinaryPath(path) == EndsWith(path, "bin/python") \/ EndsWith(path, "bin/python3")

\* The offsets of text that the pattern can reach from the offsets in from,
\* one atom of the pattern at a time.
RECURSIVE Reach(_, _, _)
Reach(pattern, text, from) ==
    IF pattern = "" THEN from
    ELSE LET fits(m) == Head(pattern) = "." \/ Head(pattern) = Char(text, m)
         IN  IF Len(pattern) >= 2 /\ Char(pattern, 2) = "*"
             THEN Reach(SubSeq(pattern, 3, Len(pattern)), text,
                        {k \in 0..Len(text) :
                            \E j \in from : j <= k /\ \A m \in (j + 1)..k : fits(m)})
             ELSE Reach(Tail(pattern), text,
                        {j + 1 : j \in {i \in from : i < Len(text) /\ fits(i + 1)}})

\* The pattern matches some prefix of the path.
MatchesAtStart(pattern, path) == Reach(pattern, path, {0}) # {}

InSeq(x, q) == \E i \in 1..Len(q) : q[i] = x

\* The text after the first sep of s.
AfterFirst(s, sep) == SubSeq(s, find(s, sep) + Len(sep), Len(s))

\* The text before the first sep of s; s when it holds none.
BeforeFirst(s, sep) == IF contains(s, sep) THEN SubSeq(s, 1, find(s, sep) - 1) ELSE s

\* The text between the first sep of s and the next one; to the end of s
\* when there is no next one.
AfterFirstToNext(s, sep) == BeforeFirst(AfterFirst(s, sep), sep)

\* The full display string the vendor rules give a path whose probe gave raw.
QualifiedVersion(path, raw) ==
    IF BeginsWith(path, "/Library/Frameworks/Python.framework")
    THEN raw \o " -- MacPython"
    ELSE IF \/ BeginsWith(path, "/System/Library/Frameworks/Python.framework")
            \/ BeginsWith(path, "/usr")
    THEN "System " \o raw
    ELSE raw

\* The directory of a path: what stands before its last slash.
DirectoryOf(path) ==
    LET I == {i \in 1..Len(path) : Char(path, i) = "/"}
    IN  SubSeq(path, 1, (CHOOSE i \in I : \A j \in I : j <= i) - 1)

Functions(file) == SelectSeq(file.content, LAMBDA chunk : chunk.kind = "function")

-----------------------------------------------------------------------------
(* The claims.                                                               *)

\* C1: is_python_filepath(path) is true if and only if the path ends with
\* "bin/python" or with "bin/python3".
C1_FilepathIffSuffix ==
    pc = "returned" => (ret.value <=> IsPythonBinaryPath(arg))

C1_Witness ==
    /\ pc = "returned"
    /\ arg = "/usr/bin/python3"
    /\ ret.value = TRUE

\* C2: a line of the locate output that is a python binary path and exists
\* is in the detected list if and only if no exclusion pattern matches at the
\* start of the path.
C2_ExcludedIffPrefixMatch ==
    pc = "returned" =>
        \A i \in 1..Len(results) :
            (IsPythonBinaryPath(results[i]) /\ results[i] \in existing) =>
                (InSeq(results[i], installed_pythons)
                    <=> ~\E j \in 1..Len(excluded_patterns) :
                            MatchesAtStart(excluded_patterns[j], results[i]))

\* One pattern of two matches at the start, the other only further on.
C2_Witness ==
    /\ pc = "returned"
    /\ excluded_patterns = <<"usr/", "/usr/.*">>
    /\ results = <<"/usr/bin/python", "/opt/anaconda/bin/python3", "">>
    /\ existing = ScanCandidates
    /\ installed_pythons = <<"/opt/anaconda/bin/python3">>

C3_Raises(v) ==
    /\ ~contains(v, "-- EPD")
    /\ \/ contains(v, "Anaconda") /\ ~contains(v, "::")
       \/ /\ ~contains(v, "Anaconda")
          /\ contains(v, "MacPython")
          /\ ~contains(BeforeFirst(v, "--"), "Python")

C4_TokenIdempotent ==
    pc = "rederived" => ret.value[2] = ret.value[1]

C4_Witness ==
    /\ pc = "rederived"
    /\ arg = "B-."
    /\ ret.value = <<"b_", "b_">>

\* C5: in dry-run mode no step of the run changes either output file.
C5_DryRunWritesNothing ==
    [][dry_run => fs' = fs]_vars

\* A dry run over a non-empty list has ended, with the files as they were.
C5_Witness ==
    /\ dry_run
    /\ pc = "aborted"
    /\ installed_pythons # <<>>
    /\ fs = OldFiles

\* C6: at the end of a write-mode run both files exist and each holds one
\* function per detected installation.
C6_OneFunctionPerInstall ==
    (~dry_run /\ pc \in {"done", "aborted"}) =>
        /\ fs.sh.present /\ fs.fish.present
        /\ Len(Functions(fs.sh)) = Len(installed_pythons)
        /\ Len(Functions(fs.fish)) = Len(installed_pythons)

\* C7: classification returns a naming result for every version string and
\* path, and a string with none of the vendor markers keeps its short form.
C7_NeverRaises ==
    pc = "returned" =>
        /\ ret.exc = NoError
        /\ (/\ ~contains(ret.version_string, "-- EPD")
            /\ ~contains(ret.version_string, "Anaconda")
            /\ ~contains(ret.version_string, "MacPython"))
               => ret.short = ret.version_string

\* C8: the full display string is the raw version with " -- MacPython"
\* appended under the MacPython root, else with "System " before it under the
\* system root or /usr, else unmodified; the short form and the token are
\* those of that string.
C8_VendorRule ==
    pc = "returned" =>
        /\ ret.version_string = QualifiedVersion(arg.path, strip(arg.stderr))
        /\ LET r == make_short_strings(QualifiedVersion(arg.path, strip(arg.stderr)))
           IN  ret.exc = r.exc /\ ret.short = r.short /\ ret.token = r.token

C8_Witness ==
    /\ pc = "returned"
    /\ arg.path = "/usr/local/bin/python3"
    /\ arg.stderr = "Python 2.7"
    /\ ret.version_string = "System Python 2.7"
    /\ ret.short = "System Python 2.7"
    /\ ret.token = "system_python_27"

\* C9: once the files are open, each is empty or begins with its initializer
\* line, and every later chunk is a function, the k-th for the k-th detected
\* installation.
C9_InitializerFirst ==
    (~dry_run /\ pc \notin {"start", "open"}) =>
        \A f \in {"sh", "fish"} :
            LET content == fs[f].content
            IN  /\ fs[f].present
                /\ Len(content) <= 1 + Len(installed_pythons)
                /\ content # <<>> =>
                       content[1] = Line(IF f = "sh"
                                         THEN "export PRISTINE_INIT_PATH=$PATH\n"
                                         ELSE "set -gx PRISTINE_INIT_PATH $PATH\n")
                /\ \A k \in 2..Len(content) :
                       /\ content[k].kind = "function"
                       /\ content[k].path = DirectoryOf(installed_pythons[k - 1])

C9_Witness ==
    /\ ~dry_run
    /\ pc = "done"
    /\ Len(installed_pythons) = 2
    /\ Len(fs.sh.content) = 3
    /\ Len(fs.fish.content) = 3

\* C10: the k-th function of either file carries the directory of the k-th
\* detected path and the full string, short form and token of the version
\* probed at that path; the k-th functions of the two files have one name.
C10_FunctionOfItsInstall ==
    /\ \A f \in {"sh", "fish"} :
           \A k \in 2..Len(fs[f].content) :
               LET chunk == fs[f].content[k]
                   path == installed_pythons[k - 1]
                   full == QualifiedVersion(path, strip(binaries[path]))
                   naming == make_short_strings(full)
               IN  /\ chunk.kind = "function"
                   /\ chunk.path = DirectoryOf(path)
                   /\ chunk.version_string = full
                   /\ chunk.prompt_string = naming.short
                   /\ chunk.func_name = "select_" \o naming.token
    /\ \A k \in 2..Len(fs.fish.content) :
           fs.sh.content[k].func_name = fs.fish.content[k].func_name

\* Two installations with different tokens have been written to both files.
C10_Witness ==
    /\ pc = "done"
    /\ ~dry_run
    /\ Len(fs.fish.content) = 3
    /\ fs.fish.content[2].func_name = "select_anaconda_161_x86_64"
    /\ fs.fish.content[3].func_name = "select_system_python_2710"
    /\ fs.sh.content[3].path = "/usr/bin"

=============================================================================
